---- MODULE Spec2Model ----
(***************************************************************************)
(* The GraphJSON viewer (viewer/src/App.tsx): the sample loader with its   *)
(* API/static fallback, and the ingestion pipeline that turns a fetched    *)
(* GraphJSON document into React Flow nodes and edges (type normalisation, *)
(* per-node execution artifacts, edge endpoint resolution).                *)
(*                                                                         *)
(* JavaScript values are modelled as strings.  A property that is absent   *)
(* reads as `undefined` in JavaScript, so a record whose field is absent   *)
(* is modelled as a record whose field holds Undef, and an absent object   *)
(* that is only ever read through `x || {}` or `x?.f` as the record whose  *)
(* fields all hold Undef.                                                  *)
(***************************************************************************)
EXTENDS Integers, Sequences, FiniteSets, TLC

VARIABLES
    preferApi,  \* App.tsx:177, fixed for the life of the component
    pc,         \* position of the running runLesson / loadSampleData call
    posted,     \* what the run endpoint answered to the running runLesson
    tried,      \* the sources loadSampleData fetched in the running call, in order
    answers,    \* what each source answered to the running call
    data,       \* the local `data` of loadSampleData (App.tsx:201), `graph` of
                \* runLesson (App.tsx:360)
    nodes,      \* React state, App.tsx:180
    edges,      \* React state, App.tsx:181
    outcome,    \* how the last call ended: "none", "ok" or "failed"
    lastError,  \* the error caught at App.tsx:340 (Undef when none)
    recorder,   \* the document a recorder builds during a run, with the calls made
    inflight,   \* the runLesson / loadSampleData calls started beside the running one
    player      \* the props of PlaybackControls and Sidebar, with what they show

\* the state of the viewer component
viewerVars ==
    <<preferApi, pc, posted, tried, answers, data, nodes, edges, outcome, lastError>>

\* the state of everything else
others == <<recorder, inflight, player>>

vars == <<viewerVars, others>>

-----------------------------------------------------------------------------
(* JavaScript values *)

Undef == "undefined"

\* JavaScript truthiness of a string-or-undefined value.
Truthy(v) == v # Undef /\ v # ""

\* a || b
Or(a, b) == IF Truthy(a) THEN a ELSE b

\* /^(p)/.test(s) for a literal prefix p
StartsWith(s, p) == Len(s) >= Len(p) /\ SubSeq(s, 1, Len(p)) = p

\* the object literal { name: v } as it reads back
ObjName(v) == "{name:" \o v \o "}"

\* What an expression yields when its evaluation throws: reading a property
\* of `undefined` throws a TypeError, which ends the enclosing callback.
TypeError == "TypeError: Cannot read properties of undefined"

-----------------------------------------------------------------------------
(* GraphJSON documents *)

ArtFields == {"prompt", "input_variables", "resolved_prompt", "input", "output",
              "model_info", "parser_type", "content"}

RoleKeys == {"prompt", "llm", "parser"}
NamedKeys == {"formatted_prompt", "llm_output", "final_output"}
NodeIds == {"prompt", "llm", "parser", "n1"}
ArtKeys == RoleKeys \cup NamedKeys \cup NodeIds

\* An artifact record none of whose fields is present.
NoArtifact == [f \in ArtFields |-> Undef]

\* The artifacts object of a document, in three shapes: nothing recorded,
\* every key and field recorded (each value names its own place k.f), and
\* every key recorded but without the `input` and `prompt` fields.
BagShapes == {"none", "full", "partial"}
Bag(shape) ==
    [k \in ArtKeys |->
        [f \in ArtFields |->
            CASE shape = "none" -> Undef
              [] shape = "full" -> k \o "." \o f
              [] OTHER -> IF f \in {"input", "prompt"} THEN Undef ELSE k \o "." \o f]]

NoConfiguration == [template |-> Undef, input_variables |-> Undef, model |-> Undef]

\* The `data` of a node: the object { provider?, model_type?, template? }, or
\* no `data` property at all.
NodeData(provider, model_type, template) ==
    [isObject |-> TRUE, provider |-> provider, model_type |-> model_type,
     template |-> template]
NoData == [isObject |-> FALSE, provider |-> Undef, model_type |-> Undef, template |-> Undef]

GraphNode(id, type, label, d, cfg, preview) ==
    [id |-> id, type |-> type, label |-> label, data |-> d,
     configuration |-> cfg, template_preview |-> preview]

GraphEvent(nodeId, node_id, kind, preview) ==
    [nodeId |-> nodeId, node_id |-> node_id, kind |-> kind, input_preview |-> preview,
     output_preview |-> Undef]

\* The end-of-step event of a node, carrying its output preview.
EndEvent(nodeId, preview) ==
    [nodeId |-> nodeId, node_id |-> Undef, kind |-> "invoke_end", input_preview |-> Undef,
     output_preview |-> preview]

\* An edge endpoint (GraphJSON.ts:44-45): a bare string, or an object
\* { nodeId, portId? }; an edge written without the property has neither.
BareEndpoint(id) ==
    [isString |-> TRUE, isObject |-> FALSE, string |-> id, nodeId |-> Undef, portId |-> Undef]
PortEndpoint(id, port) ==
    [isString |-> FALSE, isObject |-> TRUE, string |-> Undef, nodeId |-> id, portId |-> port]
NoEndpoint ==
    [isString |-> FALSE, isObject |-> FALSE, string |-> Undef, nodeId |-> Undef, portId |-> Undef]

GraphEdge(id, source, target, label) ==
    [id |-> id, source |-> source, target |-> target, label |-> label]

\* A JSON body.  nodesIsArray / edgesIsArray / eventsIsArray tell whether the
\* body has that array at all (`undefined`, `null` and {} have none).
Document(v, ns, es, evs, arts) ==
    [metadata |-> [version |-> v], nodesIsArray |-> TRUE, nodes |-> ns,
     edgesIsArray |-> TRUE, edges |-> es, eventsIsArray |-> TRUE, events |-> evs,
     artifacts |-> arts]

UndefinedData ==
    [metadata |-> [version |-> Undef], nodesIsArray |-> FALSE, nodes |-> <<>>,
     edgesIsArray |-> FALSE, edges |-> <<>>, eventsIsArray |-> FALSE, events |-> <<>>,
     artifacts |-> Bag("none")]

-----------------------------------------------------------------------------
(* Ingestion, App.tsx:208-334 *)

AliasKeys == {"prompt", "PromptTemplate", "promptTemplate", "llm", "chatModel",
              "ChatOpenAI", "ChatAnthropic", "Groq", "parser", "StrOutputParser"}

\* What map["constructor"] reads: the object literal inherits the property
\* from Object.prototype.
ObjectConstructor == "function Object() { [native code] }"

\* the table looked up without regard to letter case
mapIgnoringCase(t) ==
    CASE t \in {"prompt", "PromptTemplate", "promptTemplate", "prompttemplate"} -> "promptTemplate"
      [] t \in {"llm", "LLM", "chatModel", "ChatOpenAI", "ChatAnthropic", "Groq"} -> "llm"
      [] t \in {"parser", "Parser", "StrOutputParser"} -> "parser"
      [] t = "constructor" -> ObjectConstructor
      [] OTHER -> Undef

\* the object literal `map` of normalizeType, read as map[t]
map(t) ==
    CASE t \in {"prompt", "PromptTemplate", "promptTemplate"} -> "promptTemplate"
      [] t \in {"llm", "chatModel", "ChatOpenAI", "ChatAnthropic", "Groq"} -> "llm"
      [] t \in {"parser", "StrOutputParser"} -> "parser"
      [] t = "constructor" -> ObjectConstructor
      [] OTHER -> Undef

normalizeType(t) == Or(map(t), t)

LabelPrefixes == {"Groq:", "ChatOpenAI:", "Anthropic:", "OpenAI:"}

\* node.data[f] without the guard: throws when the node has no data
dataOfUnguarded(node, f) == IF node.data.isObject THEN node.data[f] ELSE TypeError

\* node?.data?.[f]
dataOf(node, f) == IF node.data.isObject THEN node.data[f] ELSE Undef

\* the heuristic chain trying the two id rules before the language-model rule
heuristicsIdFirst(node, normalizedType) ==
    LET label == Or(node.label, "")
        provider == dataOf(node, "provider")
        modelType == dataOf(node, "model_type")
    IN  IF provider = TypeError \/ modelType = TypeError THEN TypeError
        ELSE
        IF node.id = "prompt" THEN "promptTemplate"
        ELSE IF node.id = "parser" THEN "parser"
        ELSE IF \/ node.id = "llm"
                \/ \E p \in LabelPrefixes : StartsWith(label, p)
                \/ modelType = "chat"
                \/ Truthy(provider)
        THEN "llm"
        ELSE normalizedType

\* The heuristic chain of the node mapping (App.tsx:303-312), given the
\* value normalizeType produced.  The two reads of node.data come first; a
\* read that throws ends the callback.
heuristics(node, normalizedType) ==
    LET label == Or(node.label, "")
        provider == dataOf(node, "provider")
        modelType == dataOf(node, "model_type")
    IN  IF provider = TypeError \/ modelType = TypeError THEN TypeError
        ELSE
        IF \/ node.id = "llm"
           \/ \E p \in LabelPrefixes : StartsWith(label, p)
           \/ modelType = "chat"
           \/ Truthy(provider)
        THEN "llm"
        ELSE IF node.id = "prompt" THEN "promptTemplate"
        ELSE IF node.id = "parser" THEN "parser"
        ELSE normalizedType

\* App.tsx:301-313
normalizedTypeOf(node) ==
    LET normalizedType == normalizeType(node.type)
    IN  IF ~Truthy(normalizedType) \/ normalizedType = "unknown"
        THEN heuristics(node, normalizedType)
        ELSE normalizedType

\* the default taken to be the newest version
versionOfNewest(d) == Or(d.metadata.version, "1.2")

\* data?.metadata?.version || '1.1'
versionOf(d) == Or(d.metadata.version, "1.1")

\* Array.isArray(data?.events) ? data.events : []
eventsOf(d) == IF d.eventsIsArray THEN d.events ELSE <<>>

NoEvent == GraphEvent(Undef, Undef, Undef, Undef)

\* events.find(e => e.node_id === nodeId || e.nodeId === nodeId && (kind ? e.kind === kind : true))
\* && binds tighter than ||; `undefined` stands for "no such event".
eventMatches(e, nodeId, kind) ==
    \/ e.node_id = nodeId
    \/ (e.nodeId = nodeId /\ (IF Truthy(kind) THEN e.kind = kind ELSE TRUE))

findEvent(events, nodeId, kind) ==
    LET hits == {i \in 1..Len(events) : eventMatches(events[i], nodeId, kind)}
    IN  IF hits = {} THEN NoEvent
        ELSE events[CHOOSE i \in hits : \A j \in hits : i <= j]

EmptyView == [f \in {} |-> Undef]

\* buildNodeArtifacts, version 1.1 branch (App.tsx:241-267)
buildV11(node, artifactsRoot) ==
    LET t == node.type
        id == node.id
    IN  IF id = "prompt" \/ t = "promptTemplate" \/ t = "PromptTemplate"
        THEN LET a == artifactsRoot["prompt"]
             IN  [template |-> Or(a.prompt, dataOf(node, "template")),
                  input_variables |-> a.input_variables,
                  resolved_prompt |-> a.resolved_prompt]
        ELSE IF id = "llm" \/ t = "chatModel" \/ t = "llm"
        THEN LET a == artifactsRoot["llm"]
             IN  [input |-> a.input, output |-> a.output, model_info |-> a.model_info]
        ELSE IF id = "parser" \/ t = "parser" \/ t = "StrOutputParser"
        THEN LET a == artifactsRoot["parser"]
             IN  [input |-> a.input, output |-> a.output, parser_type |-> a.parser_type]
        ELSE EmptyView

\* the later versions reading the record kept under the node's own id
buildV12ById(node, artifactsRoot, events) ==
    LET t == node.type
        a == artifactsRoot[node.id]
    IN  IF t = "PromptTemplate"
        THEN [template |-> Or(node.configuration.template, node.template_preview),
              input_variables |-> node.configuration.input_variables,
              resolved_prompt |-> a.resolved_prompt]
        ELSE IF t \in {"ChatOpenAI", "ChatAnthropic", "Groq", "llm", "chatModel"}
        THEN [input |-> Or(findEvent(events, node.id, "invoke_start").input_preview, a.input),
              output |-> a.output,
              model_info |-> ObjName(Or(node.configuration.model, node.label))]
        ELSE IF t \in {"StrOutputParser", "parser"}
        THEN [input |-> Or(findEvent(events, node.id, "invoke_start").input_preview, a.input),
              output |-> a.output,
              parser_type |-> "string"]
        ELSE EmptyView

\* buildNodeArtifacts, every other version (App.tsx:268-295)
buildV12(node, artifactsRoot, events) ==
    LET t == node.type
        id == node.id
    IN  IF t = "PromptTemplate"
        THEN [template |-> Or(node.configuration.template, node.template_preview),
              input_variables |-> node.configuration.input_variables,
              resolved_prompt |-> artifactsRoot["formatted_prompt"].content]
        ELSE IF t \in {"ChatOpenAI", "ChatAnthropic", "Groq", "llm", "chatModel"}
        THEN LET start == findEvent(events, id, "invoke_start")
             IN  [input |-> Or(start.input_preview, artifactsRoot["formatted_prompt"].content),
                  output |-> artifactsRoot["llm_output"].content,
                  model_info |-> ObjName(Or(node.configuration.model, node.label))]
        ELSE IF t \in {"StrOutputParser", "parser"}
        THEN LET start == findEvent(events, id, "invoke_start")
             IN  [input |-> Or(start.input_preview, artifactsRoot["llm_output"].content),
                  output |-> artifactsRoot["final_output"].content,
                  parser_type |-> "string"]
        ELSE EmptyView

\* App.tsx:237-296, closed over version, events and artifactsRoot (230-232)
buildNodeArtifacts(node, version, events, artifactsRoot) ==
    IF version = "1.1"
    THEN buildV11(node, artifactsRoot)
    ELSE buildV12(node, artifactsRoot, events)

\* the callback giving a node without a usable type the category of its
\* position in the array
reactFlowNodeByPosition(d, node, index) ==
    LET first == normalizeType(node.type)
        normalizedType == IF Truthy(first) /\ first # "unknown" THEN first
                          ELSE IF index = 0 THEN "promptTemplate"
                          ELSE IF index = 1 THEN "llm"
                          ELSE "parser"
        execArtifacts == buildNodeArtifacts(node, versionOf(d), eventsOf(d), d.artifacts)
    IN  [id |-> node.id,
         type |-> normalizedType,
         position |-> [x |-> 120 + (index * 240), y |-> 180],
         data |-> [label |-> node.label, type |-> normalizedType,
                   nodeData |-> node, artifacts |-> execArtifacts]]

\* the callback writing the normalized type back into the node it was given
reactFlowNodeWritingBack(d, node, index) ==
    LET normalizedType == normalizedTypeOf(node)
        execArtifacts == buildNodeArtifacts(node, versionOf(d), eventsOf(d), d.artifacts)
    IN  [id |-> node.id,
         type |-> normalizedType,
         position |-> [x |-> 120 + (index * 240), y |-> 180],
         data |-> [label |-> node.label, type |-> normalizedType,
                   nodeData |-> [node EXCEPT !.type = normalizedType],
                   artifacts |-> execArtifacts]]

\* the callback of data.nodes.map (App.tsx:299-326); index counts from 0
reactFlowNode(d, node, index) ==
    LET normalizedType == normalizedTypeOf(node)
        execArtifacts == buildNodeArtifacts(node, versionOf(d), eventsOf(d), d.artifacts)
    IN  [id |-> node.id,
         type |-> normalizedType,
         position |-> [x |-> 120 + (index * 240), y |-> 180],
         data |-> [label |-> node.label, type |-> normalizedType,
                   nodeData |-> node, artifacts |-> execArtifacts]]

reactFlowNodes(d) == [i \in 1..Len(d.nodes) |-> reactFlowNode(d, d.nodes[i], i - 1)]

\* the endpoint resolved to "nodeId:portId" when it names a port
endpointIdWithPort(e) ==
    IF e.isString THEN e.string
    ELSE IF ~e.isObject THEN TypeError
    ELSE IF e.portId # Undef THEN e.nodeId \o ":" \o e.portId
    ELSE e.nodeId

\* typeof e === 'string' ? e : e.nodeId
endpointId(e) ==
    IF e.isString THEN e.string
    ELSE IF e.isObject THEN e.nodeId
    ELSE TypeError

\* App.tsx:328-334
reactFlowEdges(d) ==
    [i \in 1..Len(d.edges) |->
        [id |-> d.edges[i].id,
         source |-> endpointId(d.edges[i].source),
         target |-> endpointId(d.edges[i].target),
         animated |-> TRUE,
         label |-> Or(d.edges[i].label, "")]]

\* The document once its nodes went through the callbacks: nodeData holds
\* the node object itself, not a copy, so whatever a callback did to its
\* node is what the document holds afterwards.
documentAfter(d, rendered) ==
    [d EXCEPT !.nodes = [i \in 1..Len(d.nodes) |-> rendered[i].data.nodeData]]

\* The callback that built React Flow node n threw on the way.
callbackThrows(n) ==
    \/ n.type = TypeError
    \/ \E f \in DOMAIN n.data.artifacts : n.data.artifacts[f] = TypeError

\* The callback that built React Flow edge e threw on the way.
edgeThrows(e) == e.source = TypeError \/ e.target = TypeError

\* data.nodes.map / data.edges.map throw a TypeError on a body without the
\* array, and pass on what a callback throws.
ingestThrows(d) ==
    \/ ~d.nodesIsArray
    \/ \E i \in 1..Len(d.nodes) : callbackThrows(reactFlowNodes(d)[i])
    \/ ~d.edgesIsArray
    \/ \E i \in 1..Len(d.edges) : edgeThrows(reactFlowEdges(d)[i])

-----------------------------------------------------------------------------
(* The ingestion of runLesson, App.tsx:360-428 *)

\* normalizeType of runLesson (App.tsx:362-376)
runNormalizeType(t) == Or(map(t), t)

\* graph?.metadata?.version || '1.1' (App.tsx:378)
runVersionOf(graph) == Or(graph.metadata.version, "1.1")

\* buildNodeArtifacts of runLesson (App.tsx:380-398): the 1.1 branch only
runBuildNodeArtifacts(node, version, artifactsRoot) ==
    IF version = "1.1" THEN buildV11(node, artifactsRoot) ELSE EmptyView

\* the callback of graph.nodes.map (App.tsx:400-421)
runReactFlowNode(graph, node, index) ==
    LET first == runNormalizeType(node.type)
        normalizedType == IF ~Truthy(first) \/ first = "unknown"
                          THEN heuristics(node, first) ELSE first
        execArtifacts == runBuildNodeArtifacts(node, runVersionOf(graph), graph.artifacts)
    IN  [id |-> node.id,
         type |-> normalizedType,
         position |-> [x |-> 120 + (index * 240), y |-> 180],
         data |-> [label |-> node.label, type |-> normalizedType,
                   nodeData |-> node, artifacts |-> execArtifacts]]

runReactFlowNodes(graph) ==
    [i \in 1..Len(graph.nodes) |-> runReactFlowNode(graph, graph.nodes[i], i - 1)]

\* App.tsx:422-428
runReactFlowEdges(graph) ==
    [i \in 1..Len(graph.edges) |->
        [id |-> graph.edges[i].id,
         source |-> endpointId(graph.edges[i].source),
         target |-> endpointId(graph.edges[i].target),
         animated |-> TRUE,
         label |-> Or(graph.edges[i].label, "")]]

\* graph.nodes.map / graph.edges.map of runLesson throwing
runIngestThrows(graph) ==
    \/ ~graph.nodesIsArray
    \/ \E i \in 1..Len(graph.nodes) : callbackThrows(runReactFlowNodes(graph)[i])
    \/ ~graph.edgesIsArray
    \/ \E i \in 1..Len(graph.edges) : edgeThrows(runReactFlowEdges(graph)[i])

-----------------------------------------------------------------------------
(* Fetching, App.tsx:191-206 *)

\* What a source answers to one fetch: the request is rejected (network
\* error), or a response with a status arrives whose body parses as JSON
\* or does not.
Response(rejects, status, jsonOk, body) ==
    [rejects |-> rejects, status |-> status, jsonOk |-> jsonOk, body |-> body]

NotFetched == Response(FALSE, 0, FALSE, UndefinedData)

\* res.ok
ok(r) == r.status >= 200 /\ r.status <= 299

Returned(d) == [threw |-> FALSE, error |-> Undef, value |-> d]
Threw(e) == [threw |-> TRUE, error |-> e, value |-> UndefinedData]

\* fetchApi (App.tsx:191-195): await fetch, throw on !res.ok, return res.json()
fetchApi(r) ==
    IF r.rejects THEN Threw("TypeError: Failed to fetch")
    ELSE IF ~ok(r) THEN Threw("Error: " \o ToString(r.status))
    ELSE IF ~r.jsonOk THEN Threw("SyntaxError: Unexpected token")
    ELSE Returned(r.body)

\* fetchStatic (App.tsx:196-200)
fetchStatic(r) ==
    IF r.rejects THEN Threw("TypeError: Failed to fetch")
    ELSE IF ~ok(r) THEN Threw("Error: " \o ToString(r.status))
    ELSE IF ~r.jsonOk THEN Threw("SyntaxError: Unexpected token")
    ELSE Returned(r.body)

fetchFrom(source, r) == IF source = "api" THEN fetchApi(r) ELSE fetchStatic(r)

\* The URL each source is fetched from (App.tsx:192, 197), after its base.
sourceUrl(source) ==
    IF source = "api" THEN "/api/runs/01_hello_chain/latest" ELSE "graph.json"

\* console.warn('Load sample failed:', error), as one line of text
loadWarning(error) == "Load sample failed: " \o error

\* App.tsx:203: preferApi ? await fetchApi() : await fetchStatic()
preferredSource(p) == IF p THEN "api" ELSE "static"

\* the catch fetching the preferred source a second time
fallbackSourceSame(p) == IF p THEN "api" ELSE "static"

\* App.tsx:205: preferApi ? await fetchStatic() : await fetchApi()
fallbackSource(p) == IF p THEN "static" ELSE "api"

-----------------------------------------------------------------------------
(* The documents the two sources may serve *)

MaxNodes == 2

LoadNodes ==
    { GraphNode("llm", "ChatOpenAI", "Groq: llama3",
                NodeData("groq", "chat", Undef), NoConfiguration, Undef),
      GraphNode("parser", Undef, "Parser", NoData, NoConfiguration, Undef) }

RECURSIVE SeqsUpTo(_, _)
SeqsUpTo(S, n) ==
    IF n = 0 THEN {<<>>}
    ELSE LET shorter == SeqsUpTo(S, n - 1)
         IN  shorter \cup {Append(s, x) : s \in {q \in shorter : Len(q) = n - 1}, x \in S}

\* Edges chaining consecutive nodes: the source a bare id, the target an
\* object { nodeId, portId }.
chainEdges(ns) ==
    [i \in 1..(Len(ns) - 1) |->
        GraphEdge("e" \o ToString(i),
                  BareEndpoint(ns[i].id),
                  PortEndpoint(ns[i + 1].id, "in"),
                  Undef)]

stepEvents(ns) ==
    [i \in 1..Len(ns) |-> GraphEvent(ns[i].id, Undef, "invoke_start", "Explain X")]

LoadDocs ==
    { Document(v, ns, chainEdges(ns), stepEvents(ns), Bag("full")) :
        v \in {Undef, "1.1", "1.2"}, ns \in SeqsUpTo(LoadNodes, MaxNodes) }

\* The document of a three-step run prompt -> llm -> parser whose steps were
\* recorded as start/end events with previews and without artifacts.
ScenarioNodes ==
    << GraphNode("prompt", "promptTemplate", "Prompt", NodeData(Undef, Undef, Undef),
                 NoConfiguration, Undef),
       GraphNode("llm", "llm", "LLM", NodeData(Undef, Undef, Undef),
                 NoConfiguration, Undef),
       GraphNode("parser", "parser", "Parser", NodeData(Undef, Undef, Undef),
                 NoConfiguration, Undef) >>

ScenarioEdges ==
    << GraphEdge("e1", BareEndpoint("prompt"), BareEndpoint("llm"), Undef),
       GraphEdge("e2", BareEndpoint("llm"), BareEndpoint("parser"), Undef) >>

ScenarioEvents ==
    << GraphEvent("prompt", Undef, "invoke_start", "X"), EndEvent("prompt", "Explain X"),
       GraphEvent("llm", Undef, "invoke_start", "Explain X"), EndEvent("llm", "X is..."),
       GraphEvent("parser", Undef, "invoke_start", "X is..."), EndEvent("parser", "X is...") >>

\* with the version left out and with the default one written out
ScenarioDocs ==
    { Document(v, ScenarioNodes, ScenarioEdges, ScenarioEvents, Bag("none")) :
        v \in {Undef, "1.1"} }

\* A body { nodes: [llm] } whose node maps well and which has no edges array.
NodesOnly ==
    [Document(Undef,
              << GraphNode("llm", "ChatOpenAI", "Groq: llama3",
                           NodeData("groq", "chat", Undef), NoConfiguration, Undef) >>,
              <<>>, <<>>, Bag("none")) EXCEPT !.edgesIsArray = FALSE]

\* JSON bodies that are no GraphDocument: {} and bodies with nodes but no edges
BadBodies ==
    { UndefinedData,
      [Document(Undef, <<>>, <<>>, <<>>, Bag("none")) EXCEPT !.edgesIsArray = FALSE],
      NodesOnly }

Responses ==
    { Response(TRUE, 0, FALSE, UndefinedData),
      Response(FALSE, 503, TRUE, UndefinedData),
      Response(FALSE, 200, FALSE, UndefinedData) }
    \cup { Response(FALSE, 200, TRUE, d) : d \in LoadDocs \cup ScenarioDocs \cup BadBodies }

-----------------------------------------------------------------------------
(* The recorder: beginStep, endStep, attachArtifact and export.  Previews   *)
(* are carried into the events unchanged and are left out.                   *)

RecNodes == {"prompt", "llm"}

MaxRecorderCalls == 3

\* The opaque handle beginStep returns.  No handle numbered 0 is ever
\* issued: such a handle stands for one that no beginStep returned.
StepHandle(n, nodeId) == [n |-> n, nodeId |-> nodeId]

ForgedHandles == { StepHandle(0, i) : i \in RecNodes }

\* An ArtifactRecord with no field.
EmptyRecord == [k \in {} |-> Undef]

\* The partial records attachArtifact is called with.
PartialRecords ==
    { [k \in {"prompt"} |-> "a"],
      [k \in {"prompt"} |-> "b"],
      [k \in {"output"} |-> "b"],
      [k \in {"prompt", "output"} |-> IF k = "prompt" THEN "b" ELSE "a"] }

\* The recorder of a run that has just started.  `calls` is the list of the
\* calls made so far with what each returned.
NewRecorder ==
    [events |-> <<>>, errors |-> <<>>, artifacts |-> [i \in RecNodes |-> EmptyRecord],
     issued |-> {}, open |-> {}, calls |-> <<>>]

\* the clock: every call reads a later time than the one before
now(rec) == Len(rec.calls) + 1

StepEvent(kind, h, ts, elapsed) ==
    [kind |-> kind, nodeId |-> h.nodeId, handle |-> h.n, ts_ms |-> ts, elapsed |-> elapsed]

\* what a call that returns nothing returns
Void == StepHandle(0, Undef)

\* One call in the list of calls: what was called with what, what it
\* returned and whether it threw.
Called(op, arg, returned) == [op |-> op, arg |-> arg, returned |-> returned, threw |-> FALSE]

\* beginStep(nodeId): emits the start event and returns a fresh handle
beginStep(rec, nodeId) ==
    LET h == StepHandle(Cardinality(rec.issued) + 1, nodeId)
    IN  [rec EXCEPT !.events = Append(@, StepEvent("invoke_start", h, now(rec), 0)),
                    !.issued = @ \cup {h},
                    !.open = @ \cup {h},
                    !.calls = Append(@, Called("beginStep", nodeId, h))]

\* the time of the start event a handle was returned with
startedAt(rec, h) ==
    LET k == CHOOSE k \in 1..Len(rec.events) :
                 rec.events[k].kind = "invoke_start" /\ rec.events[k].handle = h.n
    IN  rec.events[k].ts_ms

UnmatchedStepError(h, ts) ==
    [nodeId |-> h.nodeId, message |-> "UnmatchedStepError", at_ms |-> ts]

\* endStep that takes any handle for an open one
endStepSilent(rec, h, emits) ==
    [rec EXCEPT !.events = Append(@, StepEvent("invoke_end", h, now(rec), 0)),
                !.open = @ \ {h},
                !.calls = Append(@, Called("endStep", h, Void))]

\* endStep(handle): on an open handle emits the end event with the time
\* elapsed since the paired start; on any other handle records the anomaly
\* and returns.  Whether the anomalous call also emits an end event is
\* left open (`emits`).
endStep(rec, h, emits) ==
    IF h \in rec.open
    THEN [rec EXCEPT !.events = Append(@, StepEvent("invoke_end", h, now(rec),
                                                   now(rec) - startedAt(rec, h))),
                     !.open = @ \ {h},
                     !.calls = Append(@, Called("endStep", h, Void))]
    ELSE [rec EXCEPT !.events = IF emits
                                THEN Append(@, StepEvent("invoke_end", h, now(rec), 0))
                                ELSE @,
                     !.errors = Append(@, UnmatchedStepError(h, now(rec))),
                     !.calls = Append(@, Called("endStep", h, Void))]

\* merging the fields of a partial record into a record
merge(record, partial) ==
    [k \in DOMAIN record \cup DOMAIN partial |->
        IF k \in DOMAIN partial THEN partial[k] ELSE record[k]]

\* attachArtifact putting the partial record in the place of the node's
attachArtifactReplacing(rec, nodeId, partial) ==
    [rec EXCEPT !.artifacts[nodeId] = partial,
                !.calls = Append(@, Called("attachArtifact", <<nodeId, partial>>, Void))]

\* attachArtifact(nodeId, partialRecord)
attachArtifact(rec, nodeId, partial) ==
    [rec EXCEPT !.artifacts[nodeId] = merge(@, partial),
                !.calls = Append(@, Called("attachArtifact", <<nodeId, partial>>, Void))]

\* export(): a snapshot of the document built so far
export(rec) ==
    [events |-> rec.events, artifacts |-> rec.artifacts, run |-> [errors |-> rec.errors]]

BeginStep ==
    /\ Len(recorder.calls) < MaxRecorderCalls
    /\ \E i \in RecNodes : recorder' = beginStep(recorder, i)
    /\ UNCHANGED <<viewerVars, inflight, player>>

EndStep ==
    /\ Len(recorder.calls) < MaxRecorderCalls
    /\ \E h \in recorder.issued \cup ForgedHandles, emits \in BOOLEAN :
          recorder' = endStep(recorder, h, emits)
    /\ UNCHANGED <<viewerVars, inflight, player>>

AttachArtifact ==
    /\ Len(recorder.calls) < MaxRecorderCalls
    /\ \E i \in RecNodes, partial \in PartialRecords :
          recorder' = attachArtifact(recorder, i, partial)
    /\ UNCHANGED <<viewerVars, inflight, player>>

-----------------------------------------------------------------------------
(* PlaybackControls (components/PlaybackControls.tsx) and the event list of *)
(* the Sidebar (components/Sidebar.tsx).  Indices count from 0.             *)

MaxEvents == 3

\* the events of a document, one per node id of ids, in time order
eventList(ids) ==
    [i \in 1..Len(ids) |-> [nodeId |-> ids[i], kind |-> "invoke_start", ts_ms |-> i - 1]]

EventLists == { eventList(ids) : ids \in SeqsUpTo(RecNodes, MaxEvents) }

\* selectedNode: null
NoSelection == "null"

\* if (events.length === 0) return null
renders(events) == Len(events) # 0

\* disabled={currentIndex === 0}
prevDisabled(events, currentIndex) == currentIndex = 0

\* Next disabled one past the last index
nextDisabledPastEnd(events, currentIndex) == currentIndex = Len(events)

\* disabled={currentIndex === events.length - 1}
nextDisabled(events, currentIndex) == currentIndex = Len(events) - 1

\* Math.max(0, currentIndex - 1)
prevIndex(currentIndex) == IF 0 >= currentIndex - 1 THEN 0 ELSE currentIndex - 1

\* Math.min(events.length - 1, currentIndex + 1)
nextIndex(events, currentIndex) ==
    IF Len(events) - 1 <= currentIndex + 1 THEN Len(events) - 1 ELSE currentIndex + 1

\* the values e.target.value of <input type="range" min={0} max={events.length - 1}>
sliderValues(events) == { ToString(k) : k \in 0..(Len(events) - 1) }

\* parseInt of a string of decimal digits
parseInt(str) == CHOOSE k \in 0..(MaxEvents + 1) : ToString(k) = str

\* graphData.events.filter(event => event.nodeId === selectedNode.id)
nodeEvents(events, selectedNode) == SelectSeq(events, LAMBDA event : event.nodeId = selectedNode)

\* The entries of the Sidebar's Events tab, each with whether it is shown
\* as played (the green class); none without a selected node.
sidebarEvents(selectedNode, events, currentEventIndex) ==
    IF selectedNode = NoSelection THEN <<>>
    ELSE LET shown == nodeEvents(events, selectedNode)
         IN  [i \in 1..Len(shown) |->
                [event |-> shown[i], played |-> (i - 1) <= currentEventIndex]]

\* the Sidebar rendered again from the props
render(p) == [p EXCEPT !.sidebar = sidebarEvents(p.selectedNode, p.events, p.currentIndex)]

\* onIndexChange(index): the parent makes index the current index of both
\* components; `emitted` keeps the index passed
onIndexChange(p, index) == render([p EXCEPT !.currentIndex = index, !.emitted = <<index>>])

Mounted(events, currentIndex) ==
    render([events |-> events, currentIndex |-> currentIndex, emitted |-> <<>>,
            selectedNode |-> NoSelection, sidebar |-> <<>>])

\* "<- Prev" is clicked; a disabled button takes no click.
ClickPrev ==
    /\ renders(player.events)
    /\ ~prevDisabled(player.events, player.currentIndex)
    /\ player' = onIndexChange(player, prevIndex(player.currentIndex))
    /\ UNCHANGED <<viewerVars, recorder, inflight>>

\* "Next ->" is clicked.
ClickNext ==
    /\ renders(player.events)
    /\ ~nextDisabled(player.events, player.currentIndex)
    /\ player' = onIndexChange(player, nextIndex(player.events, player.currentIndex))
    /\ UNCHANGED <<viewerVars, recorder, inflight>>

\* The slider is moved to another value.
Slide ==
    /\ renders(player.events)
    /\ \E value \in sliderValues(player.events) \ {ToString(player.currentIndex)} :
          player' = onIndexChange(player, parseInt(value))
    /\ UNCHANGED <<viewerVars, recorder, inflight>>

\* A node is selected on the canvas, or the selection is cleared
\* (App.tsx:184-186).
SelectNode ==
    /\ \E id \in (RecNodes \cup {NoSelection}) \ {player.selectedNode} :
          player' = render([player EXCEPT !.selectedNode = id])
    /\ UNCHANGED <<viewerVars, recorder, inflight>>

\* No call has been started beside the running one.  `started` counts the
\* calls started, `active` numbers the call whose locals the viewer's
\* variables hold (0 before the first), `parked` holds the locals of the
\* other calls, each waiting at its await or ended.
NoneInflight == [started |-> 0, active |-> 0, parked |-> {}]

\* what the other components hold while the viewer is at work
OthersIdle ==
    /\ recorder = NewRecorder
    /\ inflight = NoneInflight
    /\ player = Mounted(<<>>, 0)

-----------------------------------------------------------------------------
(* loadSampleData, App.tsx:188-343 *)

Sources == {"api", "static"}

\* the component as mounted
ViewerMounted ==
    /\ preferApi \in BOOLEAN
    /\ pc = "idle"
    /\ posted = NotFetched
    /\ tried = <<>>
    /\ answers = [s \in Sources |-> NotFetched]
    /\ data = UndefinedData
    /\ nodes = <<>>
    /\ edges = <<>>
    /\ outcome = "none"
    /\ lastError = Undef

Init == ViewerMounted /\ OthersIdle

\* loadSampleData entered with both sources fetched at once
EnterLoadRacing ==
    /\ pc' = "preferred"
    /\ tried' = <<preferredSource(preferApi), fallbackSource(preferApi)>>
    /\ answers' = [s \in Sources |-> NotFetched]
    /\ data' = UndefinedData
    /\ outcome' = "none"
    /\ lastError' = Undef
    /\ UNCHANGED <<preferApi, nodes, edges>>

\* loadSampleData is entered: the preferred source is fetched (App.tsx:203).
EnterLoad ==
    /\ pc' = "preferred"
    /\ tried' = <<preferredSource(preferApi)>>
    /\ answers' = [s \in Sources |-> NotFetched]
    /\ data' = UndefinedData
    /\ outcome' = "none"
    /\ lastError' = Undef
    /\ UNCHANGED <<preferApi, nodes, edges>>

\* "Load Sample" is clicked.
StartLoad ==
    /\ pc \in {"idle", "done"}
    /\ posted' = NotFetched
    /\ EnterLoad
    /\ UNCHANGED others

\* runLesson is entered (App.tsx:345-356): without an API the sample
\* loader runs, with one the run is POSTed.
EnterRun ==
    IF ~preferApi
    THEN EnterLoad
    ELSE /\ pc' = "posting"
         /\ tried' = <<>>
         /\ answers' = [s \in Sources |-> NotFetched]
         /\ data' = UndefinedData
         /\ outcome' = "none"
         /\ lastError' = Undef
         /\ UNCHANGED <<preferApi, nodes, edges>>

\* "Run Lesson" is clicked.
StartRun ==
    /\ pc \in {"idle", "done"}
    /\ posted' = NotFetched
    /\ EnterRun
    /\ UNCHANGED others

\* The POST settles (App.tsx:357-435).  A rejected fetch, an unparsable
\* body and a throwing mapping land in the catch, which runs the sample
\* loader; a response that is not ok skips the whole if.
PostSettles(Served) ==
    /\ pc = "posting"
    /\ \E r \in Served :
          /\ posted' = r
          /\ IF r.rejects \/ (ok(r) /\ (~r.jsonOk \/ runIngestThrows(r.body)))
             THEN EnterLoad
             ELSE IF ~ok(r)
             THEN /\ pc' = "done"
                  /\ UNCHANGED <<preferApi, tried, answers, data, nodes, edges,
                                 outcome, lastError>>
             ELSE /\ pc' = "done"
                  /\ data' = documentAfter(r.body, runReactFlowNodes(r.body))
                  /\ outcome' = "ok"
                  /\ nodes' = runReactFlowNodes(r.body)
                  /\ edges' = runReactFlowEdges(r.body)
                  /\ UNCHANGED <<preferApi, tried, answers, lastError>>
    /\ UNCHANGED others

\* the ingestion calling setNodes as soon as the nodes are mapped, before
\* the edges are
IngestNodesFirst(d) ==
    /\ pc' = "done"
    /\ IF ingestThrows(d)
       THEN /\ data' = d
            /\ outcome' = "failed"
            /\ lastError' = TypeError
            /\ nodes' = IF /\ d.nodesIsArray
                           /\ \A i \in 1..Len(d.nodes) : ~callbackThrows(reactFlowNodes(d)[i])
                        THEN reactFlowNodes(d) ELSE nodes
            /\ UNCHANGED edges
       ELSE /\ data' = documentAfter(d, reactFlowNodes(d))
            /\ outcome' = "ok"
            /\ lastError' = Undef
            /\ nodes' = reactFlowNodes(d)
            /\ edges' = reactFlowEdges(d)

\* App.tsx:208-342 once `data` is assigned: the mapping throws into the
\* outer catch, or both setNodes and setEdges run.
Ingest(d) ==
    /\ pc' = "done"
    /\ IF ingestThrows(d)
       THEN /\ data' = d
            /\ outcome' = "failed"
            /\ lastError' = TypeError
            /\ UNCHANGED <<nodes, edges>>
       ELSE /\ data' = documentAfter(d, reactFlowNodes(d))
            /\ outcome' = "ok"
            /\ lastError' = Undef
            /\ nodes' = reactFlowNodes(d)
            /\ edges' = reactFlowEdges(d)

\* The preferred fetch settles (App.tsx:202-206): on a throw the inner
\* catch issues the fetch of the other source.
PreferredSettles(Served) ==
    /\ pc = "preferred"
    /\ \E r \in Served :
          LET source == tried[1]
              res == fetchFrom(source, r)
          IN  /\ answers' = [answers EXCEPT ![source] = r]
              /\ IF res.threw
                 THEN /\ pc' = "fallback"
                      /\ tried' = Append(tried, fallbackSource(preferApi))
                      /\ UNCHANGED <<data, nodes, edges, outcome, lastError>>
                 ELSE /\ Ingest(res.value)
                      /\ UNCHANGED tried
    /\ UNCHANGED <<preferApi, posted, others>>

\* The fallback fetch settles: a throw leaves the inner catch and lands in
\* the outer one (App.tsx:340-342).
FallbackSettles(Served) ==
    /\ pc = "fallback"
    /\ \E r \in Served :
          LET source == tried[2]
              res == fetchFrom(source, r)
          IN  /\ answers' = [answers EXCEPT ![source] = r]
              /\ IF res.threw
                 THEN /\ pc' = "done"
                      /\ outcome' = "failed"
                      /\ lastError' = res.error
                      /\ UNCHANGED <<data, nodes, edges>>
                 ELSE Ingest(res.value)
    /\ UNCHANGED <<preferApi, posted, tried, others>>

\* What the component hands to the renderer (App.tsx:441-447): the nodes
\* and the edges; it keeps no state about a failed load.
exposed(ns, es) == [nodes |-> ns, edges |-> es]

Next ==
    \/ StartLoad
    \/ PreferredSettles(Responses)
    \/ FallbackSettles(Responses)
    \/ StartRun
    \/ PostSettles(Responses)

Spec == Init /\ [][Next]_vars

-----------------------------------------------------------------------------
(* The ingestion of one fetched document, over a wide range of node records *)

TypeStrings ==
    AliasKeys \cup {Undef, "", "unknown", "Tool", "LLM", "Parser", "prompttemplate",
                    "constructor"}
Labels == {Undef, "Groq: llama3", "Translator"}
Versions == {Undef, "1.1", "1.2", "2.0"}

\* What a producer adds to a node beyond id, type and label: nothing; a
\* provider, a template and the complete v1.2 snapshot; or a model_type and
\* only the template preview.
NodeExtras ==
    { [data |-> NodeData(Undef, Undef, Undef),
       configuration |-> NoConfiguration, template_preview |-> Undef],
      [data |-> NodeData("groq", Undef, "data.template"),
       configuration |-> [template |-> "configuration.template",
                          input_variables |-> "configuration.input_variables",
                          model |-> "configuration.model"],
       template_preview |-> "template_preview"],
      [data |-> NodeData(Undef, "chat", Undef),
       configuration |-> NoConfiguration, template_preview |-> "template_preview"] }

IngestNodes ==
    { GraphNode(id, t, l, x.data, x.configuration, x.template_preview) :
        id \in NodeIds, t \in TypeStrings, l \in Labels, x \in NodeExtras }

\* Event lists about node `id`: none; its start; its end then its start;
\* the same two keyed by node_id.
EventShapes == {"none", "start", "end_start", "snake"}
eventsAbout(shape, id) ==
    CASE shape = "none" -> <<>>
      [] shape = "start" -> <<GraphEvent(id, Undef, "invoke_start", "Explain X")>>
      [] shape = "end_start" -> <<GraphEvent(id, Undef, "invoke_end", Undef),
                                  GraphEvent(id, Undef, "invoke_start", "Explain X")>>
      [] OTHER -> <<GraphEvent(Undef, id, "invoke_end", Undef),
                    GraphEvent(Undef, id, "invoke_start", "Explain X")>>

IngestDocs ==
    { Document(v, <<n>>, <<GraphEdge("e1", BareEndpoint(n.id), PortEndpoint(n.id, Undef), Undef)>>,
               eventsAbout(e, n.id), Bag(b)) :
        v \in Versions, n \in IngestNodes, e \in EventShapes, b \in BagShapes }

IngestResponses == { Response(FALSE, 200, TRUE, d) : d \in IngestDocs }

\* A loadSampleData call whose preferred fetch, or a runLesson call whose
\* POST, is about to be answered from IngestResponses.
InitIngest ==
    /\ preferApi = TRUE
    /\ pc \in {"preferred", "posting"}
    /\ posted = NotFetched
    /\ tried = IF pc = "preferred" THEN <<preferredSource(preferApi)>> ELSE <<>>
    /\ answers = [s \in Sources |-> NotFetched]
    /\ data = UndefinedData
    /\ nodes = <<>>
    /\ edges = <<>>
    /\ outcome = "none"
    /\ lastError = Undef
    /\ OthersIdle

NextIngest == PreferredSettles(IngestResponses) \/ PostSettles(IngestResponses)

SpecIngest == InitIngest /\ [][NextIngest]_vars

-----------------------------------------------------------------------------
(* The ingestion of sparse documents: node records, events and artifacts    *)
(* with parts missing                                                       *)

SparseTypes == {Undef, "", "unknown", "Tool", "llm", "PromptTemplate", "parser"}
SparseLabels == {Undef, "Groq: llama3"}

\* A node without data, with the empty data object, with a filled one.
SparseData == {NoData, NodeData(Undef, Undef, Undef), NodeData("groq", "chat", "data.template")}

SparseNodes ==
    { GraphNode(id, t, l, x, NoConfiguration, Undef) :
        id \in NodeIds, t \in SparseTypes, l \in SparseLabels, x \in SparseData }

\* The events of a document: no events property; the empty array; the
\* entry {}; entries about node `id` lacking kind and preview; a start
\* entry lacking its preview after the entry {}.
SparseEventShapes == {"absent", "empty", "hollow", "kindless", "previewless"}
sparseEvents(shape, id) ==
    CASE shape \in {"absent", "empty"} -> <<>>
      [] shape = "hollow" -> <<GraphEvent(Undef, Undef, Undef, Undef)>>
      [] shape = "kindless" -> <<GraphEvent(id, Undef, Undef, Undef),
                                 GraphEvent(Undef, id, Undef, Undef)>>
      [] OTHER -> <<GraphEvent(Undef, Undef, Undef, Undef),
                    GraphEvent(id, Undef, "invoke_start", Undef)>>

SparseDocs ==
    { [Document(v, <<n>>,
                <<GraphEdge("e1", BareEndpoint(n.id), PortEndpoint(n.id, Undef), Undef)>>,
                sparseEvents(e, n.id), Bag(b))
         EXCEPT !.eventsIsArray = (e # "absent")] :
        v \in {Undef, "1.1", "1.2"}, n \in SparseNodes, e \in SparseEventShapes,
        b \in BagShapes }

SparseResponses == { Response(FALSE, 200, TRUE, d) : d \in SparseDocs }

NextSparse == PreferredSettles(SparseResponses) \/ PostSettles(SparseResponses)

SpecSparse == InitIngest /\ [][NextSparse]_vars

-----------------------------------------------------------------------------
(* The ingestion of documents whose one edge has endpoints of every form *)

EdgeNodes ==
    << GraphNode("llm", "llm", "Groq: llama3", NodeData("groq", "chat", Undef),
                 NoConfiguration, Undef),
       GraphNode("parser", "parser", "Parser", NoData, NoConfiguration, Undef) >>

\* The ids an endpoint may name: the two nodes, and an id no node has.
EndpointIds == {"llm", "parser", "ghost"}
PortIds == {Undef, "out"}

\* A bare id; an object with or without a port; an object without nodeId;
\* no endpoint at all.
Endpoints ==
    { BareEndpoint(id) : id \in EndpointIds }
    \cup { PortEndpoint(id, port) : id \in EndpointIds \cup {Undef}, port \in PortIds }
    \cup { NoEndpoint }

EdgeDocs ==
    { Document(Undef, EdgeNodes, <<GraphEdge("e1", src, tgt, l)>>, <<>>, Bag("full")) :
        src \in Endpoints, tgt \in Endpoints, l \in {Undef, "next"} }
    \cup { Document(Undef, EdgeNodes, <<>>, <<>>, Bag("full")) }

EdgeResponses == { Response(FALSE, 200, TRUE, d) : d \in EdgeDocs }

NextEdges == PreferredSettles(EdgeResponses) \/ PostSettles(EdgeResponses)

SpecEdges == InitIngest /\ [][NextEdges]_vars

-----------------------------------------------------------------------------
(* Properties *)

\* loadSampleData has ended, and ended with setNodes/setEdges.
Loaded == pc = "done" /\ outcome = "ok" /\ tried # <<>>

\* runLesson has ended with its own setNodes/setEdges.
RunLoaded == pc = "done" /\ outcome = "ok" /\ tried = <<>>

\* The first source the running call fetched.
Preferred == tried[1]

\* An answer that is no usable GraphDocument: network error, non-OK status,
\* unparsable body, or a JSON body without a nodes or an edges array.
Unusable(r) == r.rejects \/ ~ok(r) \/ ~r.jsonOk \/ ~r.body.nodesIsArray \/ ~r.body.edgesIsArray

NonOkStatus(r) == ~r.rejects /\ r.status # 0 /\ ~ok(r)

\* The displayed graph is that of document d: node for node and edge for edge.
Shows(d) ==
    /\ Len(nodes) = Len(d.nodes)
    /\ \A i \in 1..Len(d.nodes) :
          /\ nodes[i].id = d.nodes[i].id
          /\ nodes[i].data.label = d.nodes[i].label
          /\ nodes[i].data.nodeData = d.nodes[i]
    /\ Len(edges) = Len(d.edges)
    /\ \A i \in 1..Len(d.edges) :
          /\ edges[i].id = d.edges[i].id
          /\ edges[i].source = (IF d.edges[i].source.isString
                                THEN d.edges[i].source.string ELSE d.edges[i].source.nodeId)
          /\ edges[i].target = (IF d.edges[i].target.isString
                                THEN d.edges[i].target.string ELSE d.edges[i].target.nodeId)

\* C1: whenever the preferred source fails in any way (network error,
\* non-OK status, unparsable body, JSON body without nodes or edges), the
\* other source is fetched before the call ends; and a call ends in failure
\* only after both sources were fetched and both failed.
C1_FallbackOnEveryFailure ==
    (pc = "done" /\ tried # <<>>) =>
        /\ Unusable(answers[Preferred]) => Len(tried) = 2
        /\ outcome = "failed" =>
              /\ {tried[i] : i \in 1..Len(tried)} = Sources
              /\ \A s \in Sources : Unusable(answers[s])

\* C2: with the API preferred, when the API answers a non-OK status the
\* static snapshot is fetched next, and when that answers a valid document
\* the call ends with the snapshot's nodes and edges displayed and without
\* any failure.
C2_SnapshotAfterNonOk ==
    (pc = "done" /\ preferApi /\ NonOkStatus(answers["api"])) =>
        /\ tried = <<"api", "static">>
        /\ ~Unusable(answers["static"]) =>
              /\ outcome = "ok"
              /\ lastError = Undef
              /\ data = answers["static"].body
              /\ Shows(answers["static"].body)

C2_Witness ==
    /\ pc = "done"
    /\ preferApi
    /\ answers["api"].status = 503
    /\ ~Unusable(answers["static"])
    /\ outcome = "ok"
    /\ Len(nodes) = 2
    /\ Len(edges) = 1
    /\ nodes[2].id = "llm"

\* C3: for every node whose raw type has no alias (or whose alias lookup
\* yields unknown) the heuristics on id, label and data decide the
\* category; in particular such a node whose label starts with "Groq:"
\* becomes llm.
C3_HeuristicsOnUnmappedType ==
    Loaded =>
        \A i \in 1..Len(nodes) :
            LET n == data.nodes[i]
            IN  (map(n.type) = Undef \/ map(n.type) = "unknown") =>
                    /\ nodes[i].type = heuristics(n, normalizeType(n.type))
                    /\ StartsWith(Or(n.label, ""), "Groq:") => nodes[i].type = "llm"

\* The closed set of canonical categories, in the renderer's spelling.
CanonicalCategories ==
    {"promptTemplate", "llm", "parser", "retriever", "vectorStore", "memory",
     "tool", "agent", "chain", "unknown"}

\* C4: every ingested node's category is one of the canonical categories,
\* and a node matched by neither the alias table nor a heuristic has the
\* category unknown.
C4_CategoryInClosedSet ==
    Loaded =>
        \A i \in 1..Len(nodes) :
            LET n == data.nodes[i]
            IN  /\ nodes[i].type \in CanonicalCategories
                /\ (n.type \notin AliasKeys /\ heuristics(n, Undef) = Undef) =>
                        nodes[i].type = "unknown"

SupportedVersions == {"1.1", "1.2"}

PromptFields == {"template", "input_variables", "resolved_prompt"}
LlmFields == {"input", "output", "model_info"}
ParserFields == {"input", "output", "parser_type"}

\* C5: under a supported version the view is chosen by the normalized
\* category: promptTemplate nodes get template, input_variables and
\* resolved_prompt; llm nodes get input, output and model_info; parser nodes
\* get input, output and parser_type.
C5_ViewByCategory ==
    (Loaded /\ versionOf(data) \in SupportedVersions) =>
        \A i \in 1..Len(nodes) :
            LET c == nodes[i].type
                view == nodes[i].data.artifacts
            IN  /\ c = "promptTemplate" => DOMAIN view = PromptFields
                /\ c = "llm" => DOMAIN view = LlmFields
                /\ c = "parser" => DOMAIN view = ParserFields

\* The keys of the artifacts object under which value v is recorded.
recordedUnder(d, v) ==
    {k \in ArtKeys : \E f \in ArtFields : d.artifacts[k][f] = v /\ v # Undef}

\* The keys of the artifacts object the view of node i draws a value from.
drawnFrom(i) ==
    UNION {recordedUnder(data, nodes[i].data.artifacts[f]) :
             f \in DOMAIN nodes[i].data.artifacts}

artifactInput(d, view) ==
    IF versionOf(d) = "1.1"
    THEN (IF DOMAIN view = LlmFields THEN d.artifacts["llm"].input
          ELSE d.artifacts["parser"].input)
    ELSE (IF DOMAIN view = LlmFields THEN d.artifacts["formatted_prompt"].content
          ELSE d.artifacts["llm_output"].content)

\* The input preview of the first invoke_start event of node id.
startPreview(d, id) ==
    LET starts == {j \in 1..Len(d.events) :
                     /\ d.events[j].kind = "invoke_start"
                     /\ (d.events[j].nodeId = id \/ d.events[j].node_id = id)}
    IN  IF starts = {} THEN Undef
        ELSE d.events[CHOOSE j \in starts : \A k \in starts : j <= k].input_preview

\* C7: under every supported version an llm or parser view's input is the
\* artifact's input whenever the artifact has one, and the input preview of
\* the node's start-of-step event exactly when the artifact has none.
C7_ArtifactInputFirst ==
    (Loaded /\ versionOf(data) \in SupportedVersions) =>
        \A i \in 1..Len(nodes) :
            LET view == nodes[i].data.artifacts
                ai == artifactInput(data, view)
            IN  (nodes[i].type \in {"llm", "parser"} /\ DOMAIN view \in {LlmFields, ParserFields}) =>
                    view.input = (IF ai # Undef THEN ai ELSE startPreview(data, nodes[i].id))

\* C8: a document without a version is ingested exactly as the same
\* document with version "1.1": same nodes, same views, same edges.
C8_AbsentVersionIs11 ==
    LET d11 == [data EXCEPT !.metadata.version = "1.1"]
    IN  /\ (Loaded /\ data.metadata.version = Undef) =>
              /\ nodes = reactFlowNodes(d11)
              /\ edges = reactFlowEdges(d11)
        /\ (RunLoaded /\ data.metadata.version = Undef) =>
              /\ nodes = runReactFlowNodes(d11)
              /\ edges = runReactFlowEdges(d11)

C8_Witness ==
    /\ Loaded
    /\ data.metadata.version = Undef
    /\ Len(nodes) = 1
    /\ nodes[1].type = "llm"
    /\ nodes[1].data.artifacts = [input |-> "llm.input", output |-> "llm.output",
                                  model_info |-> "llm.model_info"]
    /\ Len(edges) = 1

\* C9: a document whose version is outside {1.1, 1.2} is refused: the call
\* does not end with that document projected and displayed.
C9_UnsupportedVersionRefused ==
    (pc = "done" /\ tried # <<>> /\ ~ingestThrows(data)
       /\ versionOf(data) \notin SupportedVersions) =>
        /\ outcome = "failed"
        /\ ~Shows(data)

\* C10: under every supported version a node whose category is none of the
\* recognized ones has the empty view, whatever its id and whatever the
\* artifacts hold.
C10_UnknownCategoryEmptyView ==
    (Loaded /\ versionOf(data) \in SupportedVersions) =>
        \A i \in 1..Len(nodes) :
            nodes[i].type \notin (CanonicalCategories \ {"unknown"}) =>
                nodes[i].data.artifacts = EmptyView

ViewShapes == {PromptFields, LlmFields, ParserFields, {}}

\* The load or run that was answered with document d ended with d
\* ingested: one rendered node per node record, each with an artifact view.
IngestedWhole(d) ==
    /\ pc = "done"
    /\ outcome = "ok"
    /\ lastError = Undef
    /\ Len(nodes) = Len(d.nodes)
    /\ \A i \in 1..Len(d.nodes) :
          /\ nodes[i].id = d.nodes[i].id
          /\ nodes[i].type # TypeError
          /\ DOMAIN nodes[i].data.artifacts \in ViewShapes
          /\ \A f \in DOMAIN nodes[i].data.artifacts : nodes[i].data.artifacts[f] # TypeError
    /\ Len(edges) = Len(d.edges)

\* C11: whatever a node record lacks (type, label, data) and whatever the
\* events and artifacts hold (missing, empty, entries lacking fields),
\* ingestion does not raise: the load, and likewise the run, answered with
\* such a document ends with every node given a category and a view, never
\* in the failure branch.
C11_NeverRaises ==
    /\ (tried # <<>> /\ answers[Preferred] # NotFetched) =>
          /\ posted = NotFetched
          /\ IngestedWhole(answers[Preferred].body)
    /\ posted # NotFetched =>
          /\ tried = <<>>
          /\ IngestedWhole(posted.body)

C11_Witness ==
    /\ Loaded
    /\ ~data.eventsIsArray
    /\ data.artifacts = Bag("none")
    /\ data.nodes[1].data = NoData
    /\ data.nodes[1].type = Undef
    /\ data.nodes[1].label = Undef
    /\ data.nodes[1].id = "n1"
    /\ nodes[1].data.artifacts = EmptyView
    /\ nodes[1].type = Undef

\* The node id endpoint e of a document's edge names: the string itself
\* when e is a bare string, its nodeId field when e is an object.
namedNode(e) == IF e.isString THEN e.string ELSE e.nodeId

\* C12: for every edge of an ingested document, the rendered source (resp.
\* target) is edge.source (resp. edge.target) when that is a bare string and
\* its nodeId field when it is an object { nodeId, portId? }, with or
\* without a portId.
C12_EndpointResolved ==
    (pc = "done" /\ outcome = "ok") =>
        /\ Len(edges) = Len(data.edges)
        /\ \A i \in 1..Len(data.edges) :
              LET e == data.edges[i]
              IN  /\ e.source.isString => edges[i].source = e.source.string
                  /\ e.source.isObject => edges[i].source = e.source.nodeId
                  /\ e.target.isString => edges[i].target = e.target.string
                  /\ e.target.isObject => edges[i].target = e.target.nodeId

C12_Witness ==
    /\ Loaded
    /\ Len(edges) = 1
    /\ data.edges[1].source = PortEndpoint("llm", "out")
    /\ data.edges[1].target = BareEndpoint("parser")
    /\ edges[1].source = "llm"
    /\ edges[1].target = "parser"

\* C13: after every successful load each rendered edge's source and target
\* is the id of a rendered node.
C13_EndpointsAreNodes ==
    Loaded =>
        \A i \in 1..Len(edges) :
            /\ \E j \in 1..Len(nodes) : nodes[j].id = edges[i].source
            /\ \E j \in 1..Len(nodes) : nodes[j].id = edges[i].target

\* C14: the three-step document (prompt of type promptTemplate, llm of type
\* llm, parser of type parser, start/end events with the previews
\* "Explain X" and "X is...", default version) is ingested with the
\* categories promptTemplate, llm and parser, and the llm node's view has
\* input "Explain X" and output "X is...".
C14_ScenarioA ==
    (Loaded /\ data \in ScenarioDocs) =>
        /\ Len(nodes) = 3
        /\ nodes[1].type = "promptTemplate"
        /\ nodes[2].type = "llm"
        /\ nodes[3].type = "parser"
        /\ DOMAIN nodes[2].data.artifacts = LlmFields
        /\ nodes[2].data.artifacts.input = "Explain X"
        /\ nodes[2].data.artifacts.output = "X is..."

PromptAliases == {"prompt", "PromptTemplate", "promptTemplate"}
LlmAliases == {"llm", "chatModel", "ChatOpenAI", "ChatAnthropic", "Groq"}
ParserAliases == {"parser", "StrOutputParser"}

\* Strings that differ from an alias only in letter case.
CaseVariants == {"LLM", "Parser", "prompttemplate"}

\* C15: the alias lookup is a case-sensitive exact match on the raw type.
\* Every node whose type is prompt, PromptTemplate or promptTemplate is
\* rendered as promptTemplate; llm, chatModel, ChatOpenAI, ChatAnthropic or
\* Groq as llm; parser or StrOutputParser as parser; a type that differs
\* from an alias only in letter case is not matched and the node does not
\* get a category of the table.
C15_AliasExactMatch ==
    (pc = "done" /\ outcome = "ok") =>
        \A i \in 1..Len(nodes) :
            LET t == data.nodes[i].type
            IN  /\ t \in PromptAliases => nodes[i].type = "promptTemplate"
                /\ t \in LlmAliases => nodes[i].type = "llm"
                /\ t \in ParserAliases => nodes[i].type = "parser"
                /\ t \in CaseVariants =>
                      nodes[i].type \notin {"promptTemplate", "llm", "parser"}

C15_Witness ==
    /\ Loaded
    /\ data.nodes[1].type = "LLM"
    /\ data.nodes[1].id = "llm"
    /\ nodes[1].type = "LLM"

\* The rendered nodes on display before and after a step.
renderedAcrossStep == {nodes[i] : i \in 1..Len(nodes)} \cup {nodes'[j] : j \in 1..Len(nodes')}

\* C16: the category of a node depends only on its own record.  Any two
\* rendered nodes made from the same node record have the same category,
\* be they at different positions of one document, or rendered by
\* successive loads or runs of documents that place the record elsewhere,
\* among other nodes, or of the same document again.
C16_CategoryByRecord ==
    [][\A a, b \in renderedAcrossStep :
           a.data.nodeData = b.data.nodeData => a.type = b.type]_vars

C16_Witness ==
    /\ Loaded
    /\ Len(nodes) = 2
    /\ nodes[1].data.nodeData = nodes[2].data.nodeData
    /\ nodes[2].data.nodeData.type = Undef
    /\ nodes[1].type = "parser"
    /\ nodes[2].type = "parser"

\* The document the last settled fetch of the running call delivered.
fetched == IF tried = <<>> THEN posted.body ELSE answers[tried[Len(tried)]].body

\* C17: ingestion never mutates the fetched document.  After a load or run
\* that ingested a document, the document (its nodes, edges, events and
\* artifacts) is field-equal to what was fetched, and each rendered node's
\* nodeData is the original node record, unmodified.
C17_DocumentUnchanged ==
    (pc = "done" /\ outcome = "ok") =>
        /\ data = fetched
        /\ Len(nodes) = Len(fetched.nodes)
        /\ \A i \in 1..Len(fetched.nodes) : nodes[i].data.nodeData = fetched.nodes[i]

C17_Witness ==
    /\ Loaded
    /\ answers["api"].body.nodes[1].type = "ChatOpenAI"
    /\ nodes[1].type = "llm"
    /\ nodes[1].data.nodeData.type = "ChatOpenAI"
    /\ data.nodes[1].type = "ChatOpenAI"

\* The fetch of source s was issued by the running call and has not settled.
Outstanding(s) == (\E i \in 1..Len(tried) : tried[i] = s) /\ answers[s] = NotFetched

\* The fetch answered with r ended in failure: rejected, non-OK status, or
\* a body that does not parse.
FetchFailed(r) == r.rejects \/ r.status < 200 \/ r.status > 299 \/ ~r.jsonOk

\* C18: within one loadSampleData call at most one fetch is outstanding at
\* any time; the fallback source is fetched only after the fetch of the
\* preferred source has ended in failure; and when the preferred fetch
\* succeeds the fallback source is never fetched.
C18_SequentialFallback ==
    /\ Cardinality({s \in Sources : Outstanding(s)}) <= 1
    /\ Len(tried) <= 2
    /\ Len(tried) = 2 =>
          /\ tried[1] # tried[2]
          /\ answers[tried[1]] # NotFetched
          /\ FetchFailed(answers[tried[1]])
    /\ (tried # <<>> /\ answers[tried[1]] # NotFetched /\ ~FetchFailed(answers[tried[1]])) =>
          /\ Len(tried) = 1
          /\ \A s \in Sources \ {tried[1]} : answers[s] = NotFetched

C18_Witness ==
    /\ pc = "fallback"
    /\ tried = <<"static", "api">>
    /\ answers["static"].status = 503
    /\ Outstanding("api")
    /\ ~Outstanding("static")

\* Text s contains text sub.
Mentions(s, sub) ==
    \E i \in 1..(Len(s) - Len(sub) + 1) : SubSeq(s, i, i + Len(sub) - 1) = sub

\* Both fetches of the call that just ended failed.
BothSourcesFailed ==
    /\ pc = "done"
    /\ Len(tried) = 2
    /\ FetchFailed(answers[tried[1]])
    /\ FetchFailed(answers[tried[2]])

\* The error a failed fetch answered with r throws.
errorOf(r) ==
    IF r.rejects THEN "TypeError: Failed to fetch"
    ELSE IF r.status < 200 \/ r.status > 299 THEN "Error: " \o ToString(r.status)
    ELSE "SyntaxError: Unexpected token"

\* C19: when both sources fail in one load, the failure that is surfaced
\* carries the error of the last (fallback) attempt together with the
\* identifiers of both sources that were tried.
C19_LastErrorWithSources ==
    BothSourcesFailed =>
        /\ outcome = "failed"
        /\ lastError = errorOf(answers[tried[2]])
        /\ \A i \in 1..2 : Mentions(loadWarning(lastError), sourceUrl(tried[i]))

\* The valid documents without nodes.
EmptyDocs == {d \in LoadDocs : Len(d.nodes) = 0}

\* C20: a viewer state reached because both sources failed is
\* distinguishable, in what the viewer exposes, from the state a successful
\* load of a valid document with zero nodes leads to.
C20_FailureDistinguishable ==
    BothSourcesFailed =>
        \A d \in EmptyDocs :
            exposed(nodes, edges) # exposed(reactFlowNodes(d), reactFlowEdges(d))

-----------------------------------------------------------------------------
(* A failed load and the display *)

\* C21: a load that does not end well leaves the displayed nodes and edges
\* as they were before it started: no step of a call that ends failed, or
\* has not ended, changes either of them, so neither an empty graph nor
\* the nodes of the new document beside the edges of the old one appear.
C21_FailedLoadKeepsDisplay ==
    [][outcome' # "ok" => (nodes' = nodes /\ edges' = edges)]_vars

\* A load of a body with one node and no edges array failed while the two
\* nodes and the edge of an earlier load were displayed.
C21_Witness ==
    /\ pc = "done"
    /\ outcome = "failed"
    /\ data = NodesOnly
    /\ Len(nodes) = 2
    /\ Len(edges) = 1

\* The POST of runLesson was answered by a failure: the request was
\* rejected or the response is not ok.
PostFailed == posted # NotFetched /\ (posted.rejects \/ ~ok(posted))

\* C22: when the POST of "Run Lesson" fails, by a network error or by a
\* status that is not ok, the sample loader is invoked: a source of
\* loadSampleData has been fetched.
C22_PostFailureFallsBack == PostFailed => tried # <<>>

-----------------------------------------------------------------------------
(* The recorder under any sequence of calls *)

InitRecorder == Init /\ preferApi = TRUE

NextRecorder == BeginStep \/ EndStep \/ AttachArtifact

SpecRecorder == InitRecorder /\ [][NextRecorder]_vars

\* The k-th call is an endStep on a handle that no earlier beginStep
\* returned or that an earlier endStep was already given.
Anomalous(k) ==
    LET c == recorder.calls
    IN  /\ c[k].op = "endStep"
        /\ \/ ~\E j \in 1..(k - 1) : c[j].op = "beginStep" /\ c[j].returned = c[k].arg
           \/ \E j \in 1..(k - 1) : c[j].op = "endStep" /\ c[j].arg = c[k].arg

\* C23: in the exported document every end-of-step event of a node follows
\* a start-of-step event of that node or has its mismatch in run.errors;
\* every endStep given a handle twice, or a handle no beginStep returned,
\* is recorded in run.errors; and no call, before or after an anomaly,
\* threw.
C23_UnmatchedStepsRecorded ==
    LET doc == export(recorder)
        c == recorder.calls
    IN  /\ \A k \in 1..Len(doc.events) :
              doc.events[k].kind = "invoke_end" =>
                \/ \E j \in 1..(k - 1) : /\ doc.events[j].kind = "invoke_start"
                                         /\ doc.events[j].nodeId = doc.events[k].nodeId
                \/ \E e \in 1..Len(doc.run.errors) :
                      /\ doc.run.errors[e].nodeId = doc.events[k].nodeId
                      /\ doc.run.errors[e].at_ms = doc.events[k].ts_ms
        /\ \A k \in 1..Len(c) :
              Anomalous(k) =>
                \E e \in 1..Len(doc.run.errors) :
                   /\ doc.run.errors[e].nodeId = c[k].arg.nodeId
                   /\ doc.run.errors[e].at_ms = k
        /\ \A k \in 1..Len(c) : ~c[k].threw

\* endStep was called without a prior beginStep and left an end event and
\* an error; after it a step was begun and ended.
C23_Witness ==
    LET c == recorder.calls
    IN  /\ Len(c) = 3
        /\ Anomalous(1)
        /\ c[2].op = "beginStep"
        /\ c[3].op = "endStep"
        /\ c[3].arg = c[2].returned
        /\ Len(recorder.errors) = 1
        /\ Len(recorder.events) = 3

\* the attachArtifact calls for node i that supplied field k
supplying(i, k) ==
    { j \in 1..Len(recorder.calls) :
        /\ recorder.calls[j].op = "attachArtifact"
        /\ recorder.calls[j].arg[1] = i
        /\ k \in DOMAIN recorder.calls[j].arg[2] }

latest(S) == CHOOSE j \in S : \A m \in S : m <= j

\* C24: after any sequence of attachArtifact calls each field of a node's
\* ArtifactRecord holds the value of the most recent call that supplied
\* that field, and a field no call supplied is absent.
C24_LastWriteWinsPerField ==
    \A i \in RecNodes, k \in {"prompt", "output"} :
       LET record == export(recorder).artifacts[i]
       IN  IF supplying(i, k) = {}
           THEN k \notin DOMAIN record
           ELSE /\ k \in DOMAIN record
                /\ record[k] = recorder.calls[latest(supplying(i, k))].arg[2][k]

\* Two partial records sharing the key `prompt` were attached to the llm
\* node, which has not begun a step: `prompt` holds the second value and
\* `output` the one only the first supplied.
C24_Witness ==
    LET c == recorder.calls
    IN  /\ Len(c) = 2
        /\ supplying("llm", "prompt") = {1, 2}
        /\ supplying("llm", "output") = {1}
        /\ recorder.events = <<>>
        /\ recorder.artifacts["llm"]["prompt"] = "a"
        /\ recorder.artifacts["llm"]["output"] = "a"

-----------------------------------------------------------------------------
(* The heuristic fallback *)

-----------------------------------------------------------------------------
(* findEvent *)

\* C26: findEvent(nodeId, "invoke_start") returns the first event that
\* belongs to the node (by nodeId or node_id) and is an invoke_start, never
\* an event of another kind or node; so under version 1.2 the input of an
\* llm or parser view is the preview of the node's first invoke_start event
\* whenever that event has one.
C26_FindEventByNodeAndKind ==
    (Loaded /\ versionOf(data) = "1.2") =>
        \A i \in 1..Len(nodes) :
            LET id == data.nodes[i].id
                found == findEvent(eventsOf(data), id, "invoke_start")
                view == nodes[i].data.artifacts
            IN  /\ found # NoEvent =>
                      /\ found.kind = "invoke_start"
                      /\ (found.nodeId = id \/ found.node_id = id)
                /\ (DOMAIN view \in {LlmFields, ParserFields} /\ Truthy(startPreview(data, id))) =>
                      view.input = startPreview(data, id)

-----------------------------------------------------------------------------
(* The two ingestion paths *)

\* C27: a document of a supported version ingested as the response of
\* runLesson is rendered as loadSampleData renders it: the same nodes (id,
\* type, artifact view, position) and the same edges.
C27_RunIngestsAsLoad ==
    (RunLoaded /\ versionOf(data) \in SupportedVersions) =>
        /\ nodes = reactFlowNodes(data)
        /\ edges = reactFlowEdges(data)

-----------------------------------------------------------------------------
(* Calls in flight together.  Neither button is disabled while a call is  *)
(* awaiting (App.tsx:466, 472), so a call can be started while others wait *)
(* at their awaits; each continuation runs to its next await undisturbed.  *)

MaxLoads == 2

\* the locals of the call the viewer's variables hold, as call number n
callContext(n) ==
    [n |-> n, pc |-> pc, posted |-> posted, tried |-> tried, answers |-> answers,
     data |-> data, outcome |-> outcome, lastError |-> lastError]

\* a click while calls are waiting: the running call's locals are set aside
\* and a new call gets the next number
startedBeside ==
    [started |-> inflight.started + 1,
     active |-> inflight.started + 1,
     parked |-> IF inflight.active = 0 THEN inflight.parked
                ELSE inflight.parked \cup {callContext(inflight.active)}]

\* "Load Sample" is clicked, whatever the other calls are doing.
StartAnotherLoad ==
    /\ inflight.started < MaxLoads
    /\ inflight' = startedBeside
    /\ posted' = NotFetched
    /\ EnterLoad
    /\ UNCHANGED <<recorder, player>>

\* "Run Lesson" is clicked, whatever the other calls are doing.
StartAnotherRun ==
    /\ inflight.started < MaxLoads
    /\ inflight' = startedBeside
    /\ posted' = NotFetched
    /\ EnterRun
    /\ UNCHANGED <<recorder, player>>

\* The event loop turns to another waiting call: its locals become the
\* running ones.
Resume ==
    /\ \E c \in inflight.parked :
          /\ c.pc # "done"
          /\ pc' = c.pc
          /\ posted' = c.posted
          /\ tried' = c.tried
          /\ answers' = c.answers
          /\ data' = c.data
          /\ outcome' = c.outcome
          /\ lastError' = c.lastError
          /\ inflight' = [inflight EXCEPT
                            !.active = c.n,
                            !.parked = (@ \ {c}) \cup {callContext(inflight.active)}]
    /\ UNCHANGED <<preferApi, nodes, edges, recorder, player>>

\* a document of one llm node and a document of one parser node
RaceDocs ==
    { Document(Undef, <<n>>, <<>>, <<>>, Bag("none")) : n \in LoadNodes }

RaceResponses ==
    { Response(FALSE, 503, TRUE, UndefinedData) }
    \cup { Response(FALSE, 200, TRUE, d) : d \in RaceDocs }

NextRace ==
    \/ StartAnotherLoad
    \/ StartAnotherRun
    \/ Resume
    \/ PreferredSettles(RaceResponses)
    \/ FallbackSettles(RaceResponses)
    \/ PostSettles(RaceResponses)

SpecRace == Init /\ [][NextRace]_vars

\* every call started has ended
AllCompleted == pc = "done" /\ \A c \in inflight.parked : c.pc = "done"

\* the locals of the call started last
lastStarted ==
    IF inflight.active = inflight.started THEN callContext(inflight.active)
    ELSE CHOOSE c \in inflight.parked : c.n = inflight.started

\* C28: once every call started has ended, the graph on display is that of
\* the call started last, if it ended with a graph: an earlier call whose
\* response came later has not overwritten it.
C28_LastStartedWins ==
    (AllCompleted /\ lastStarted.outcome = "ok") =>
        LET d == lastStarted.data
        IN  IF lastStarted.tried = <<>>
            THEN nodes = runReactFlowNodes(d) /\ edges = runReactFlowEdges(d)
            ELSE nodes = reactFlowNodes(d) /\ edges = reactFlowEdges(d)

-----------------------------------------------------------------------------
(* Playback *)

InitPlayback ==
    /\ ViewerMounted
    /\ preferApi = TRUE
    /\ recorder = NewRecorder
    /\ inflight = NoneInflight
    /\ player \in UNION { { Mounted(events, i) :
                                i \in 0..(IF Len(events) = 0 THEN 0 ELSE Len(events) - 1) } :
                            events \in EventLists }

NextPlayback == ClickPrev \/ ClickNext \/ Slide \/ SelectNode

SpecPlayback == InitPlayback /\ [][NextPlayback]_vars

\* C29: with a non-empty event list the current index and every index
\* passed to onIndexChange lie within 0..events.length-1, Prev takes a
\* click exactly when the index is not 0 and Next exactly when it is not
\* the last; with an empty list no control exists and no index was passed.
C29_IndexWithinRange ==
    LET n == Len(player.events)
    IN  /\ n > 0 =>
              /\ player.currentIndex \in 0..(n - 1)
              /\ \A k \in 1..Len(player.emitted) : player.emitted[k] \in 0..(n - 1)
              /\ (ENABLED ClickPrev) <=> (player.currentIndex # 0)
              /\ (ENABLED ClickNext) <=> (player.currentIndex # n - 1)
        /\ n = 0 =>
              /\ player.emitted = <<>>
              /\ ~ENABLED ClickPrev
              /\ ~ENABLED ClickNext
              /\ ~ENABLED Slide

\* Of three events the last was reached, by an index passed to onIndexChange.
C29_Witness ==
    /\ Len(player.events) = 3
    /\ player.emitted = <<2>>
    /\ player.currentIndex = 2
    /\ ~ENABLED ClickNext
    /\ ENABLED ClickPrev

\* C30: an entry of the Sidebar's event list is shown as played exactly
\* when the event's position in the document's full event sequence is at
\* or before the current playback index.
C30_PlayedUpToIndex ==
    \A k \in 1..Len(player.sidebar) :
        player.sidebar[k].played <=> (player.sidebar[k].event.ts_ms <= player.currentIndex)

====
